---- MODULE Spec2Model ----
(***************************************************************************)
(* Model of backend/sample.py: the Calculator class (a list-valued         *)
(* `history` attribute mutated by add, multiply and clear_history and      *)
(* copied by get_history) and the module-level utility functions.          *)
(*                                                                         *)
(* Python lists are objects with identity, so the model keeps a heap of    *)
(* list objects and lets Calculators and the caller hold references to     *)
(* them: whether get_history hands out a copy or an alias, and whether     *)
(* two Calculators share one list, is then decided by the modelled code.   *)
(***************************************************************************)
EXTENDS Integers, Sequences, FiniteSets, TLC

(* ------------------------------ bounds -------------------------------- *)

\* Total number of list elements alive on the heap at any time.
MaxCells == 3

\* Arguments of divide_numbers are drawn from -MaxDivArg .. MaxDivArg.
MaxDivArg == 10

\* Arguments of calculate_fibonacci are drawn from -MaxFibArg .. MaxFibArg.
MaxFibArg == 10

\* get_user_by_api is called with page and per_page drawn from 0 .. MaxApiArg
\* or omitted.
MaxApiArg == 10

\* validate_email is applied to every string over EmailAlphabet of at most
\* this many characters.
MaxEmailLen == 7

(* ----------------------------- universes ------------------------------ *)

\* Calculator instances the caller may construct.
Inst == {1, 2}

\* Operand pairs <<a, b>> handed to add and multiply: the pair used by the
\* repository's own tests, and one with a negative operand and result.
OperandPairs == {<<3, 4>>, <<-1, 3>>}

\* What the caller writes into a list it got from get_history.
CallerValues == {"caller"}

\* List objects: one per Calculator, one held by the caller, and one more
\* for the copy that get_history builds while the caller still holds the
\* previous one.
Refs == 1 .. (Cardinality(Inst) + 2)

\* The absent reference (an unbound name).
NoRef == 0


VARIABLES
    heap,       \* heap[r]: the elements of list object r (<<>> when r is free)
    calc,       \* calc[i]: the list object bound to self.history of Calculator i
    held,       \* the list object the caller got from its last get_history call
    completed,  \* completed[i]: add/multiply calls on i since its last clear (auxiliary)
    call,       \* the most recent call: its name, receiver and arguments
    outcome,    \* how that call ended: a returned value, a raised error, or pending
    frames,     \* the call stack of a recursive function under evaluation
    seen        \* what process_user_data returned, per record, when first called (auxiliary)

vars == <<heap, calc, held, completed, call, outcome, frames, seen>>

(* --------------------------- Python values ---------------------------- *)

PyInt(n) == [type |-> "int", val |-> n]
PyList(r) == [type |-> "list", ref |-> r]
PyNone == [type |-> "NoneType"]

\* A quotient of two integers, kept exact as a fraction in lowest terms
\* with a positive denominator (what the float returned by a / b denotes
\* before rounding).
RECURSIVE Gcd(_, _)
Gcd(m, n) == IF n = 0 THEN m ELSE Gcd(n, m % n)

Abs(n) == IF n < 0 THEN 0 - n ELSE n

\* Variant: floor division (a // b) instead of true division.
TrueDivFloored(a, b) ==
    LET s == IF b < 0 THEN 0 - 1 ELSE 1
    IN  [type |-> "float", num |-> (s * a) \div (s * b), den |-> 1]

TrueDiv(a, b) ==
    LET g == Gcd(Abs(a), Abs(b))
        s == IF b < 0 THEN 0 - 1 ELSE 1
    IN  [type |-> "float", num |-> (s * a) \div g, den |-> (s * b) \div g]

\* a / b on Python values: defined on numbers, ZeroDivisionError on a zero
\* divisor, TypeError on anything else.
PyTrueDiv(a, b) ==
    IF a.type # "int" \/ b.type # "int"
    THEN [kind |-> "raise", exc |-> "TypeError",
          msg |-> "unsupported operand type(s) for /: '" \o a.type \o "' and '" \o b.type \o "'"]
    ELSE IF b.val = 0
    THEN [kind |-> "raise", exc |-> "ZeroDivisionError", msg |-> "division by zero"]
    ELSE [kind |-> "return", value |-> TrueDiv(a.val, b.val)]

\* b == 0 on a Python value
PyEqualsZero(b) == b.type = "int" /\ b.val = 0

Return(v) == [kind |-> "return", value |-> v]
Raise(e, m) == [kind |-> "raise", exc |-> e, msg |-> m]
Pending == [kind |-> "pending"]

NoCall == [op |-> "none", inst |-> 0, args |-> <<>>]
MethodCall(name, i, as) == [op |-> name, inst |-> i, args |-> as]
FunctionCall(name, as) == [op |-> name, inst |-> 0, args |-> as]

(* ------------------------- str() of an integer ------------------------ *)

DigitStr(d) ==
    CASE d = 0 -> "0" [] d = 1 -> "1" [] d = 2 -> "2" [] d = 3 -> "3"
      [] d = 4 -> "4" [] d = 5 -> "5" [] d = 6 -> "6" [] d = 7 -> "7"
      [] d = 8 -> "8" [] d = 9 -> "9"

RECURSIVE NatStr(_)
NatStr(n) == IF n < 10 THEN DigitStr(n) ELSE NatStr(n \div 10) \o DigitStr(n % 10)

IntStr(n) == IF n < 0 THEN "-" \o NatStr(0 - n) ELSE NatStr(n)

(* ------------------------------ the heap ------------------------------ *)

\* References somebody still holds.
LiveRefs == ({calc[i] : i \in Inst} \cup {held}) \ {NoRef}

\* The list object a new list is placed in: the lowest free one.
FreshRef == CHOOSE r \in Refs : r \notin LiveRefs /\ \A q \in Refs : q \notin LiveRefs => r <= q

RECURSIVE CellsOf(_, _)
CellsOf(h, rs) ==
    IF rs = {} THEN 0
    ELSE LET r == CHOOSE q \in rs : TRUE IN Len(h[r]) + CellsOf(h, rs \ {r})

Cells == CellsOf(heap, Refs)

\* Reference counting: a list object nobody references any more is freed.
Collect(h, live) == [r \in Refs |-> IF r \in live THEN h[r] ELSE <<>>]

Constructed(i) == calc[i] # NoRef

\* The entries of Calculator i's self.history.
History(i) == heap[calc[i]]

(* ------------------------- built-in list methods ---------------------- *)

\* Variant: the entry is inserted at the front (list.insert(0, e)).
ListAppendAtFront(l, e) == <<e>> \o l

\* list.append(e)
ListAppend(l, e) == Append(l, e)

\* list.copy(): the elements of the new list
ListCopy(l) == [k \in 1 .. Len(l) |-> l[k]]

\* Variant: only the oldest entry is dropped (del l[:1]).
ListClearOldestOnly(l) == IF l = <<>> THEN <<>> ELSE Tail(l)

\* list.clear()
ListClear(l) == <<>>

\* del l[k], 1-based here
ListDelItem(l, k) == SubSeq(l, 1, k - 1) \o SubSeq(l, k + 1, Len(l))

\* l[k] = e, 1-based here
ListSetItem(l, k, e) == [l EXCEPT ![k] = e]

(* ------------------------------ Calculator ---------------------------- *)

Init ==
    /\ heap = [r \in Refs |-> <<>>]
    /\ calc = [i \in Inst |-> NoRef]
    /\ held = NoRef
    /\ completed = [i \in Inst |-> 0]
    /\ call = NoCall
    /\ outcome = Pending
    /\ frames = <<>>
    /\ seen = {}

\* Variant: the list starts with a placeholder entry.
NewHistoryWithPlaceholder == <<"">>

\* The elements of the list literal [] in __init__.
NewHistory == <<>>

\* Variant: history is a class attribute, one list shared by all instances.
ClassLevelHistoryRef(i) ==
    IF \E j \in Inst : Constructed(j)
    THEN calc[CHOOSE j \in Inst : Constructed(j)]
    ELSE FreshRef

\* The list object the literal [] in __init__ creates.
NewHistoryRef(i) == FreshRef

\* Calculator(): __init__ binds self.history to a new empty list.
Construct(i) ==
    /\ ~Constructed(i)
    /\ LET r == NewHistoryRef(i) IN
        /\ calc' = [calc EXCEPT ![i] = r]
        /\ heap' = [heap EXCEPT ![r] = NewHistory]
    /\ completed' = [completed EXCEPT ![i] = 0]
    /\ call' = MethodCall("__init__", i, <<>>)
    /\ outcome' = Return(PyNone)
    /\ UNCHANGED <<held, frames, seen>>

\* Variant: add copied from multiply without changing the operator.
AddResultAsProduct(a, b) == a * b

\* result = a + b
AddResult(a, b) == a + b

\* Variant: the operands are logged in the wrong order.
AddEntrySwapped(a, b, result) == IntStr(b) \o " + " \o IntStr(a) \o " = " \o IntStr(result)

\* f"{a} + {b} = {result}"
AddEntry(a, b, result) == IntStr(a) \o " + " \o IntStr(b) \o " = " \o IntStr(result)

\* Calculator.add(a, b)
Add(i, a, b) ==
    /\ Constructed(i)
    /\ Cells < MaxCells
    /\ LET result == AddResult(a, b) IN
        /\ heap' = [heap EXCEPT ![calc[i]] = ListAppend(@, AddEntry(a, b, result))]
        /\ outcome' = Return(PyInt(result))
    /\ completed' = [completed EXCEPT ![i] = @ + 1]
    /\ call' = MethodCall("add", i, <<a, b>>)
    /\ UNCHANGED <<calc, held, frames, seen>>

\* Variant: multiply copied from add without changing the operator.
MultiplyResultAsSum(a, b) == a + b

\* result = a * b
MultiplyResult(a, b) == a * b

\* f"{a} * {b} = {result}"
MultiplyEntry(a, b, result) == IntStr(a) \o " * " \o IntStr(b) \o " = " \o IntStr(result)

\* Variant: multiply computes and returns but does not log.
MultiplyUnlogged(i, a, b) ==
    /\ Constructed(i)
    /\ Cells < MaxCells
    /\ outcome' = Return(PyInt(MultiplyResult(a, b)))
    /\ completed' = [completed EXCEPT ![i] = @ + 1]
    /\ call' = MethodCall("multiply", i, <<a, b>>)
    /\ UNCHANGED <<heap, calc, held, frames, seen>>

\* Calculator.multiply(a, b)
Multiply(i, a, b) ==
    /\ Constructed(i)
    /\ Cells < MaxCells
    /\ LET result == MultiplyResult(a, b) IN
        /\ heap' = [heap EXCEPT ![calc[i]] = ListAppend(@, MultiplyEntry(a, b, result))]
        /\ outcome' = Return(PyInt(result))
    /\ completed' = [completed EXCEPT ![i] = @ + 1]
    /\ call' = MethodCall("multiply", i, <<a, b>>)
    /\ UNCHANGED <<calc, held, frames, seen>>

\* Variant: get_history returns self.history itself.
GetHistoryAliasRef(i) == calc[i]

\* The list object get_history returns: self.history.copy() is a new list.
GetHistoryRef(i) == FreshRef

\* h = calc.get_history(): the caller binds the returned list, dropping the
\* one it held before.
GetHistory(i) ==
    /\ Constructed(i)
    /\ LET r == GetHistoryRef(i)
           copied == [heap EXCEPT ![r] = ListCopy(History(i))]
           after == Collect(copied, ({calc[j] : j \in Inst} \cup {r}) \ {NoRef})
       IN
        /\ CellsOf(after, Refs) <= MaxCells
        /\ heap' = after
        /\ held' = r
        /\ outcome' = Return(PyList(r))
    /\ call' = MethodCall("get_history", i, <<>>)
    /\ UNCHANGED <<calc, completed, frames, seen>>

\* Variant: the log is emptied by popping, which fails on an empty list.
ClearHistoryByPop(i) ==
    /\ Constructed(i)
    /\ IF History(i) = <<>>
       THEN /\ outcome' = Raise("IndexError", "pop from empty list")
            /\ UNCHANGED <<heap, completed>>
       ELSE /\ heap' = [heap EXCEPT ![calc[i]] = <<>>]
            /\ completed' = [completed EXCEPT ![i] = 0]
            /\ outcome' = Return(PyNone)
    /\ call' = MethodCall("clear_history", i, <<>>)
    /\ UNCHANGED <<calc, held, frames, seen>>

\* Calculator.clear_history(): self.history.clear(), no return statement.
ClearHistory(i) ==
    /\ Constructed(i)
    /\ heap' = [heap EXCEPT ![calc[i]] = ListClear(@)]
    /\ completed' = [completed EXCEPT ![i] = 0]
    /\ call' = MethodCall("clear_history", i, <<>>)
    /\ outcome' = Return(PyNone)
    /\ UNCHANGED <<calc, held, frames, seen>>

(* --------------- the caller and the list it was handed ---------------- *)

CallerOps == {"list.append", "list.__delitem__", "list.__setitem__", "list.clear"}

CallerAppend(x) ==
    /\ held # NoRef
    /\ Cells < MaxCells
    /\ heap' = [heap EXCEPT ![held] = ListAppend(@, x)]
    /\ call' = FunctionCall("list.append", <<x>>)
    /\ outcome' = Return(PyNone)
    /\ UNCHANGED <<calc, held, completed, frames, seen>>

CallerRemove(k) ==
    /\ held # NoRef
    /\ k \in 1 .. Len(heap[held])
    /\ heap' = [heap EXCEPT ![held] = ListDelItem(@, k)]
    /\ call' = FunctionCall("list.__delitem__", <<k>>)
    /\ outcome' = Return(PyNone)
    /\ UNCHANGED <<calc, held, completed, frames, seen>>

CallerOverwrite(k, x) ==
    /\ held # NoRef
    /\ k \in 1 .. Len(heap[held])
    /\ heap' = [heap EXCEPT ![held] = ListSetItem(@, k, x)]
    /\ call' = FunctionCall("list.__setitem__", <<k, x>>)
    /\ outcome' = Return(PyNone)
    /\ UNCHANGED <<calc, held, completed, frames, seen>>

CallerClear ==
    /\ held # NoRef
    /\ heap' = [heap EXCEPT ![held] = ListClear(@)]
    /\ call' = FunctionCall("list.clear", <<>>)
    /\ outcome' = Return(PyNone)
    /\ UNCHANGED <<calc, held, completed, frames, seen>>

Next ==
    \/ \E i \in Inst : Construct(i)
    \/ \E i \in Inst, p \in OperandPairs : Add(i, p[1], p[2])
    \/ \E i \in Inst, p \in OperandPairs : Multiply(i, p[1], p[2])
    \/ \E i \in Inst : GetHistory(i)
    \/ \E i \in Inst : ClearHistory(i)
    \/ \E x \in CallerValues : CallerAppend(x)
    \/ \E k \in 1 .. MaxCells : CallerRemove(k)
    \/ \E k \in 1 .. MaxCells, x \in CallerValues : CallerOverwrite(k, x)
    \/ CallerClear

Spec == Init /\ [][Next]_vars

(* ------------- add and multiply with operands of any type ------------- *)

\* Operands handed to add and multiply: ints, and None, which supports
\* neither + nor *.
OperandChoices == {PyInt(3), PyNone}

\* a + b and a * b are defined for two ints; with None they raise.
SupportsArithmetic(a, b) == a.type = "int" /\ b.type = "int"

\* Variant: a placeholder entry is logged before the error leaves the method.
UnsupportedOperandsLogged(i, name, symbol, a, b) ==
    /\ Constructed(i)
    /\ Cells < MaxCells
    /\ heap' = [heap EXCEPT ![calc[i]] = ListAppend(@, "error")]
    /\ outcome' = Raise("TypeError",
                        "unsupported operand type(s) for " \o symbol \o ": '"
                          \o a.type \o "' and '" \o b.type \o "'")
    /\ call' = MethodCall(name, i, <<a, b>>)
    /\ UNCHANGED <<calc, held, completed, frames, seen>>

\* result = a + b (or a * b) raises TypeError: the method is left at that
\* statement, before the append.
UnsupportedOperands(i, name, symbol, a, b) ==
    /\ Constructed(i)
    /\ outcome' = Raise("TypeError",
                        "unsupported operand type(s) for " \o symbol \o ": '"
                          \o a.type \o "' and '" \o b.type \o "'")
    /\ call' = MethodCall(name, i, <<a, b>>)
    /\ UNCHANGED <<heap, calc, held, completed, frames, seen>>

\* Calculator.add(a, b) for operands of any type.
Calculator_add(i, a, b) ==
    IF SupportsArithmetic(a, b)
    THEN Add(i, a.val, b.val)
    ELSE UnsupportedOperands(i, "add", "+", a, b)

\* Calculator.multiply(a, b) for operands of any type.
Calculator_multiply(i, a, b) ==
    IF SupportsArithmetic(a, b)
    THEN Multiply(i, a.val, b.val)
    ELSE UnsupportedOperands(i, "multiply", "*", a, b)

NextOperands ==
    \/ \E i \in Inst : Construct(i)
    \/ \E i \in Inst, a, b \in OperandChoices : Calculator_add(i, a, b)
    \/ \E i \in Inst, a, b \in OperandChoices : Calculator_multiply(i, a, b)
    \/ \E i \in Inst : ClearHistory(i)

SpecOperands == Init /\ [][NextOperands]_vars

(* ---------------------------- divide_numbers -------------------------- *)

\* Arguments handed to divide_numbers: small integers, and None as a value
\* that is not a number.
DivArgs == {PyInt(n) : n \in (0 - MaxDivArg) .. MaxDivArg} \cup {PyNone}

\* Variant: no zero check, so the division itself raises.
divide_numbers_unchecked(a, b) == PyTrueDiv(a, b)

divide_numbers(a, b) ==
    IF PyEqualsZero(b)
    THEN Raise("ValueError", "Cannot divide by zero")
    ELSE PyTrueDiv(a, b)

InitDivide ==
    /\ heap = [r \in Refs |-> <<>>]
    /\ calc = [i \in Inst |-> NoRef]
    /\ held = NoRef
    /\ completed = [i \in Inst |-> 0]
    /\ \E a, b \in DivArgs : call = FunctionCall("divide_numbers", <<a, b>>)
    /\ outcome = Pending
    /\ frames = <<>>
    /\ seen = {}

DivideNumbers ==
    /\ call.op = "divide_numbers"
    /\ outcome.kind = "pending"
    /\ outcome' = divide_numbers(call.args[1], call.args[2])
    /\ UNCHANGED <<heap, calc, held, completed, call, frames, seen>>

NextDivide == DivideNumbers

SpecDivide == InitDivide /\ [][NextDivide]_vars

(* ----------------------- properties: Calculator ---------------------- *)

LoggingOps == {"add", "multiply"}

\* The entries of the list a get_history call has just returned.
Returned == heap[outcome.value.ref]

\* Calculator i's history in the state a step leads to.
HistoryAfter(i) == heap'[calc'[i]]

IsPrefix(s, t) == Len(s) <= Len(t) /\ \A k \in 1 .. Len(s) : t[k] = s[k]

\* C1: the length of a Calculator's history equals the number of add and
\* multiply calls completed on it since its last clear_history (or since
\* its construction).
C1_LengthCountsCalls ==
    \A i \in Inst : Constructed(i) => Len(History(i)) = completed[i]

C1_Witness ==
    /\ call.op = "add"
    /\ completed[call.inst] = 1
    /\ held # NoRef
    /\ Len(heap[held]) = 2
    /\ \A j \in Inst : j # call.inst => ~Constructed(j)

\* C2: every add or multiply call leaves the entries logged before it
\* unchanged and in place: the history before the call is a proper prefix
\* of the history after it, so entries stay in call order.
C2_AppendOnly ==
    [][call'.op \in LoggingOps =>
         /\ IsPrefix(History(call'.inst), HistoryAfter(call'.inst))
         /\ Len(HistoryAfter(call'.inst)) = Len(History(call'.inst)) + 1]_vars

C2_Witness ==
    /\ Constructed(1)
    /\ History(1) = <<"3 + 4 = 7", "-1 * 3 = -3", "-1 + 3 = 2">>

\* C3: add(a, b) returns a + b and appends exactly one entry,
\* "{a} + {b} = {a + b}", at the end of the history; from an empty history
\* add(3, 4) returns 7 and leaves the history equal to ["3 + 4 = 7"].
C3_AddLogs ==
    [][call'.op = "add" =>
         LET a == call'.args[1]
             b == call'.args[2]
             i == call'.inst
         IN  /\ outcome' = Return(PyInt(a + b))
             /\ HistoryAfter(i) = Append(History(i),
                    ToString(a) \o " + " \o ToString(b) \o " = " \o ToString(a + b))
             /\ (History(i) = <<>> /\ a = 3 /\ b = 4 =>
                    /\ outcome'.value.val = 7
                    /\ HistoryAfter(i) = <<"3 + 4 = 7">>)]_vars

C3_Witness ==
    /\ call = MethodCall("add", 1, <<3, 4>>)
    /\ outcome = Return(PyInt(7))
    /\ History(1) = <<"3 + 4 = 7">>

\* C4: multiply(a, b) returns a * b and appends exactly one entry,
\* "{a} * {b} = {a * b}", at the end of the history.
C4_MultiplyLogs ==
    [][call'.op = "multiply" =>
         LET a == call'.args[1]
             b == call'.args[2]
             i == call'.inst
         IN  /\ outcome' = Return(PyInt(a * b))
             /\ HistoryAfter(i) = Append(History(i),
                    ToString(a) \o " * " \o ToString(b) \o " = " \o ToString(a * b))]_vars

C4_Witness ==
    /\ call = MethodCall("multiply", 1, <<-1, 3>>)
    /\ outcome = Return(PyInt(-3))
    /\ History(1) = <<"3 + 4 = 7", "-1 * 3 = -3">>

\* C5: get_history returns a defensive copy: no append, removal, overwrite
\* or clear the caller applies to a returned list changes any Calculator's
\* history, and get_history returns the entries of the history as it stands,
\* leaving it unchanged.
C5_DefensiveCopy ==
    [][/\ call'.op \in CallerOps =>
            \A i \in Inst : Constructed(i) => HistoryAfter(i) = History(i)
       /\ call'.op = "get_history" =>
            /\ outcome'.kind = "return"
            /\ outcome'.value.type = "list"
            /\ Returned' = History(call'.inst)
            /\ HistoryAfter(call'.inst) = History(call'.inst)]_vars

C5_Witness ==
    /\ call.op \in CallerOps
    /\ Constructed(1)
    /\ ~Constructed(2)
    /\ History(1) # <<>>
    /\ held # NoRef
    /\ heap[held] # History(1)

\* C6: clear_history empties the history completely and returns None, and a
\* get_history call made immediately afterwards returns the empty list.
C6_ClearEmpties ==
    [][/\ call'.op = "clear_history" =>
            /\ outcome' = Return(PyNone)
            /\ HistoryAfter(call'.inst) = <<>>
       /\ (call.op = "clear_history" /\ call'.op = "get_history"
             /\ call'.inst = call.inst) =>
            Returned' = <<>>]_vars

C6_Witness ==
    /\ call.op = "clear_history"
    /\ History(call.inst) = <<>>
    /\ held # NoRef
    /\ Len(heap[held]) = 2
    /\ \A j \in Inst : j # call.inst => ~Constructed(j)

\* C7: clear_history is idempotent: called right after a clear_history of
\* the same Calculator, or on an empty history, it raises nothing, leaves
\* the history empty and changes no list.
C7_ClearIdempotent ==
    [][(/\ call'.op = "clear_history"
        /\ \/ History(call'.inst) = <<>>
           \/ call.op = "clear_history" /\ call.inst = call'.inst) =>
         /\ outcome'.kind = "return"
         /\ HistoryAfter(call'.inst) = <<>>
         /\ UNCHANGED <<heap, calc, held>>]_vars

\* The other Calculator's history fills the heap, so the history cleared by
\* this call was already empty when it was made.
C7_Witness ==
    /\ call = MethodCall("clear_history", 2, <<>>)
    /\ outcome = Return(PyNone)
    /\ Constructed(1)
    /\ Len(History(1)) = MaxCells
    /\ History(2) = <<>>

\* C8: a newly constructed Calculator has an empty history, and get_history
\* called on it before any add or multiply returns the empty list.
C8_StartsEmpty ==
    [][/\ call'.op = "__init__" => HistoryAfter(call'.inst) = <<>>
       /\ (call.op = "__init__" /\ call'.op = "get_history"
             /\ call'.inst = call.inst) =>
            Returned' = <<>>]_vars

C8_Witness ==
    /\ call.op = "get_history"
    /\ completed[call.inst] = 0
    /\ \A r \in Refs : heap[r] = <<>>
    /\ \A j \in Inst : j # call.inst => ~Constructed(j)

\* C9: histories are instance-scoped: an add, multiply or clear_history on
\* one Calculator leaves every other Calculator's history unchanged, and a
\* Calculator constructed after others have logged operations starts empty
\* without disturbing theirs.
C9_InstanceScoped ==
    [][\A j \in Inst :
         (Constructed(j) /\ call'.inst # j
            /\ call'.op \in LoggingOps \cup {"clear_history", "__init__"}) =>
           /\ HistoryAfter(j) = History(j)
           /\ calc'[call'.inst] # calc'[j]
           /\ call'.op = "__init__" => HistoryAfter(call'.inst) = <<>>]_vars

C9_Witness ==
    /\ call.op = "__init__"
    /\ call.inst = 2
    /\ Constructed(1)
    /\ Len(History(1)) = 2
    /\ History(2) = <<>>

CalculatorOps == {"__init__", "add", "multiply", "clear_history"}

\* C25: a list returned by get_history is a snapshot: it holds the entries
\* of the history at the time of the call, it is not the history's own list,
\* and no later construction, add, multiply or clear_history changes it.
C25_Snapshot ==
    [][/\ call'.op = "get_history" =>
            /\ outcome' = Return(PyList(held'))
            /\ heap'[held'] = History(call'.inst)
            /\ \A j \in Inst : calc'[j] # held'
       /\ (call'.op \in CalculatorOps /\ held # NoRef) =>
            /\ held' = held
            /\ heap'[held] = heap[held]]_vars

\* The caller still holds the entry it was handed; the history it was
\* copied from has been cleared since.
C25_Witness ==
    /\ call = MethodCall("clear_history", 1, <<>>)
    /\ ~Constructed(2)
    /\ History(1) = <<>>
    /\ held # NoRef
    /\ heap[held] = <<"3 + 4 = 7">>

OperandValues == UNION {{p[1], p[2]} : p \in OperandPairs}

\* The entries whose recorded result is the sum, respectively the product,
\* of their recorded operands.
ConsistentEntries ==
    {ToString(a) \o " + " \o ToString(b) \o " = " \o ToString(a + b) : a, b \in OperandValues}
      \cup
    {ToString(a) \o " * " \o ToString(b) \o " = " \o ToString(a * b) : a, b \in OperandValues}

\* C26: in every reachable state every history entry is consistent (its
\* result is a + b for a '+' entry and a * b for a '*' entry of the operands
\* it records); entries only come from add and multiply calls, one per call;
\* and the value a call returns is the result recorded in the entry that
\* call appended.
C26_EntriesConsistent ==
    /\ [](\A i \in Inst : Constructed(i) =>
            \A k \in 1 .. Len(History(i)) : History(i)[k] \in ConsistentEntries)
    /\ [][/\ call'.op \in LoggingOps =>
                LET after == HistoryAfter(call'.inst)
                    symbol == IF call'.op = "add" THEN " + " ELSE " * "
                IN  /\ outcome'.kind = "return"
                    /\ Len(after) = Len(History(call'.inst)) + 1
                    /\ after[Len(after)] =
                         ToString(call'.args[1]) \o symbol \o ToString(call'.args[2])
                           \o " = " \o ToString(outcome'.value.val)
           /\ call'.op \notin LoggingOps =>
                \A i \in Inst : (calc'[i] # NoRef) =>
                    Len(HistoryAfter(i)) <= (IF Constructed(i) THEN Len(History(i)) ELSE 0)
          ]_vars

C26_Witness ==
    /\ call = MethodCall("add", 1, <<3, 4>>)
    /\ outcome = Return(PyInt(7))
    /\ History(1) = <<"-1 * 3 = -3", "3 + 4 = 7">>

\* C27: when the computation inside add or multiply fails because the
\* operands do not support the operation, the TypeError reaches the caller
\* and every history is exactly as it was before the call: nothing is
\* appended, no placeholder either; a call appends only when it returns.
C27_FailureLeavesHistory ==
    [][call'.op \in LoggingOps =>
         /\ outcome'.kind \in {"raise", "return"}
         /\ outcome'.kind = "raise" =>
              /\ outcome'.exc = "TypeError"
              /\ ~SupportsArithmetic(call'.args[1], call'.args[2])
              /\ calc' = calc
              /\ \A j \in Inst : Constructed(j) => HistoryAfter(j) = History(j)
         /\ outcome'.kind = "return" =>
              Len(HistoryAfter(call'.inst)) = Len(History(call'.inst)) + 1]_vars

C27_Witness ==
    /\ call.op = "add"
    /\ outcome = Raise("TypeError", "unsupported operand type(s) for +: 'NoneType' and 'int'")
    /\ call.args = <<PyNone, PyInt(3)>>
    /\ History(call.inst) = <<"3 * 3 = 9", "3 + 3 = 6">>

(* --------------------- properties: divide_numbers --------------------- *)

\* C10: divide_numbers(a, b) with b = 0 raises ValueError("Cannot divide by
\* zero") for every a, number or not, and returns no quotient.
C10_DivideByZeroRaises ==
    (call.op = "divide_numbers" /\ outcome.kind # "pending"
       /\ call.args[2].type = "int" /\ call.args[2].val = 0) =>
        /\ outcome.kind = "raise"
        /\ outcome.exc = "ValueError"
        /\ outcome.msg = "Cannot divide by zero"

C10_Witness ==
    /\ call.op = "divide_numbers"
    /\ call.args = <<PyInt(10), PyInt(0)>>
    /\ outcome.kind = "raise"

\* C11: divide_numbers(a, b) on numbers with b # 0 raises nothing and
\* returns the quotient a / b; the division-by-zero ValueError is raised
\* only when b is 0.
C11_DivideReturnsQuotient ==
    (call.op = "divide_numbers" /\ outcome.kind # "pending") =>
        LET a == call.args[1]
            b == call.args[2]
        IN  /\ (a.type = "int" /\ b.type = "int" /\ b.val # 0) =>
                 /\ outcome.kind = "return"
                 /\ outcome.value.type = "float"
                 /\ outcome.value.den > 0
                 /\ outcome.value.num * b.val = a.val * outcome.value.den
            /\ (outcome.kind = "raise" /\ outcome.exc = "ValueError") =>
                 (b.type = "int" /\ b.val = 0)

C11_Witness ==
    /\ call = FunctionCall("divide_numbers", <<PyInt(1), PyInt(3)>>)
    /\ outcome = Return([type |-> "float", num |-> 1, den |-> 3])

(* -------------------------- calculate_fibonacci ----------------------- *)

\* No Calculator exists and none is touched while a module-level function
\* is evaluated.
NoCalculator ==
    /\ heap = [r \in Refs |-> <<>>]
    /\ calc = [i \in Inst |-> NoRef]
    /\ held = NoRef
    /\ completed = [i \in Inst |-> 0]

FibArgs == (0 - MaxFibArg) .. MaxFibArg

\* One activation of calculate_fibonacci: its argument, where it stands in
\* the body, and the values of the two recursive calls once they returned.
Frame(n) == [n |-> n, pc |-> "entry", left |-> 0, right |-> 0]

Top == frames[Len(frames)]

Callers == SubSeq(frames, 1, Len(frames) - 1)

\* Variant: zero is rejected as well.
FibInvalidOrZero(n) == n <= 0

\* if n < 0
FibInvalid(n) == n < 0

\* Variant: only zero is a base case.
FibIsBaseZeroOnly(n) == n <= 0

\* if n <= 1
FibIsBase(n) == n <= 1

\* Variant: both base cases return 1.
FibBaseValueOne(n) == 1

\* return n
FibBaseValue(n) == n

FibFirstArg(n) == n - 1

FibSecondArg(n) == n - 2

\* The stack after the top activation returns v to its caller; the outcome
\* of the whole call when there is no caller.
FramesAfterReturn(v) ==
    IF Callers = <<>> THEN <<>>
    ELSE LET c == Callers[Len(Callers)] IN
         [Callers EXCEPT ![Len(Callers)] =
            IF c.pc = "first"
            THEN [c EXCEPT !.pc = "afterFirst", !.left = v]
            ELSE [c EXCEPT !.pc = "afterSecond", !.right = v]]

OutcomeAfterReturn(v) == IF Callers = <<>> THEN Return(PyInt(v)) ELSE outcome

InitFib ==
    /\ NoCalculator
    /\ \E n \in FibArgs :
        /\ call = FunctionCall("calculate_fibonacci", <<n>>)
        /\ frames = <<Frame(n)>>
        /\ seen = {}
    /\ outcome = Pending

\* raise ValueError("n must be non-negative"): nothing catches it, so it
\* unwinds every activation.
FibRaise ==
    /\ frames # <<>>
    /\ Top.pc = "entry"
    /\ FibInvalid(Top.n)
    /\ frames' = <<>>
    /\ outcome' = Raise("ValueError", "n must be non-negative")
    /\ UNCHANGED <<heap, calc, held, completed, call, seen>>

\* return n
FibBase ==
    /\ frames # <<>>
    /\ Top.pc = "entry"
    /\ ~FibInvalid(Top.n)
    /\ FibIsBase(Top.n)
    /\ frames' = FramesAfterReturn(FibBaseValue(Top.n))
    /\ outcome' = OutcomeAfterReturn(FibBaseValue(Top.n))
    /\ UNCHANGED <<heap, calc, held, completed, call, seen>>

\* calculate_fibonacci(n - 1), the left operand of the sum
FibFirstCall ==
    /\ frames # <<>>
    /\ Top.pc = "entry"
    /\ ~FibInvalid(Top.n)
    /\ ~FibIsBase(Top.n)
    /\ frames' = Append([frames EXCEPT ![Len(frames)].pc = "first"],
                        Frame(FibFirstArg(Top.n)))
    /\ UNCHANGED <<heap, calc, held, completed, call, outcome, seen>>

\* calculate_fibonacci(n - 2), the right operand of the sum
FibSecondCall ==
    /\ frames # <<>>
    /\ Top.pc = "afterFirst"
    /\ frames' = Append([frames EXCEPT ![Len(frames)].pc = "second"],
                        Frame(FibSecondArg(Top.n)))
    /\ UNCHANGED <<heap, calc, held, completed, call, outcome, seen>>

\* return <left> + <right>
FibSum ==
    /\ frames # <<>>
    /\ Top.pc = "afterSecond"
    /\ frames' = FramesAfterReturn(Top.left + Top.right)
    /\ outcome' = OutcomeAfterReturn(Top.left + Top.right)
    /\ UNCHANGED <<heap, calc, held, completed, call, seen>>

NextFib == FibRaise \/ FibBase \/ FibFirstCall \/ FibSecondCall \/ FibSum

SpecFib == InitFib /\ [][NextFib]_vars

\* The interpreter runs the one thread of the call to its end: a step that
\* can be taken is taken.
SpecFibLive == SpecFib /\ WF_vars(NextFib)

(* ------------------- properties: calculate_fibonacci ------------------ *)

\* The n-th term of the sequence 0, 1, 1, 2, ..., computed by iterating the
\* pair of consecutive terms.
RECURSIVE FibPair(_, _, _)
FibPair(k, a, b) == IF k = 0 THEN a ELSE FibPair(k - 1, b, a + b)

FibTerm(n) == FibPair(n, 0, 1)

FibFirstTerms == <<0, 1, 1, 2, 3, 5, 8, 13, 21, 34, 55>>

FibDone == call.op = "calculate_fibonacci" /\ outcome.kind # "pending"

\* C12: for every n >= 0 calculate_fibonacci(n) returns the n-th term of
\* fib(0) = 0, fib(1) = 1, fib(k) = fib(k-1) + fib(k-2); n = 0..10 yields
\* 0, 1, 1, 2, 3, 5, 8, 13, 21, 34, 55.
C12_FibonacciTerm ==
    (FibDone /\ call.args[1] >= 0) =>
        /\ outcome = Return(PyInt(FibTerm(call.args[1])))
        /\ call.args[1] < Len(FibFirstTerms) =>
             outcome.value.val = FibFirstTerms[call.args[1] + 1]

C12_Witness ==
    /\ call = FunctionCall("calculate_fibonacci", <<10>>)
    /\ outcome = Return(PyInt(55))

\* C13: calculate_fibonacci(n) raises ValueError("n must be non-negative")
\* for every n < 0 and raises nothing for any n >= 0.
C13_FibonacciNegative ==
    FibDone =>
        /\ call.args[1] < 0 => outcome = Raise("ValueError", "n must be non-negative")
        /\ call.args[1] >= 0 => outcome.kind = "return"

C13_Witness ==
    /\ call = FunctionCall("calculate_fibonacci", <<0 - 1>>)
    /\ outcome.kind = "raise"
    /\ frames = <<>>

\* C28: calculate_fibonacci(n) terminates for every n >= 0: every
\* recursive call gets a non-negative argument strictly smaller than its
\* caller's, so the recursion reaches the base cases and the call returns;
\* no activation gets a negative argument and nothing is raised.
C28_FibonacciTerminates ==
    /\ (call.op = "calculate_fibonacci" /\ call.args[1] >= 0)
          ~> (outcome.kind = "return" /\ frames = <<>>)
    /\ [](call.args[1] >= 0 =>
            /\ \A k \in 1 .. Len(frames) : frames[k].n >= 0
            /\ \A k \in 2 .. Len(frames) : frames[k].n < frames[k - 1].n
            /\ outcome.kind # "raise")

\* The deepest point of the recursion for n = 10: ten activations, the
\* innermost at a base case.
C28_Witness ==
    /\ call = FunctionCall("calculate_fibonacci", <<10>>)
    /\ Len(frames) = 10
    /\ Top.n = 1
    /\ Top.pc = "entry"

(* ------------------------------- text --------------------------------- *)

\* Text whose characters the code looks at is a sequence of one-character
\* strings; fixed literals (dictionary keys, messages, "adult") are strings.
PyStr(chars) == [type |-> "str", val |-> chars]
PyBool(b) == [type |-> "bool", val |-> b]
PyDict(items) == [type |-> "dict", items |-> items]

LowerLetters == <<"a", "b", "c", "d", "e", "f", "g", "h", "i", "j", "k", "l", "m", "n", "o", "p", "q", "r", "s", "t", "u", "v", "w", "x", "y", "z">>

UpperLetters == <<"A", "B", "C", "D", "E", "F", "G", "H", "I", "J", "K", "L", "M", "N", "O", "P", "Q", "R", "S", "T", "U", "V", "W", "X", "Y", "Z">>

DigitChars == <<"0", "1", "2", "3", "4", "5", "6", "7", "8", "9">>

\* Position of character c in the sequence cs, 0 when it is not in it.
IndexOf(c, cs) ==
    IF \E k \in 1 .. Len(cs) : cs[k] = c
    THEN CHOOSE k \in 1 .. Len(cs) : cs[k] = c /\ \A j \in 1 .. (k - 1) : cs[j] # c
    ELSE 0

IsLower(c) == IndexOf(c, LowerLetters) # 0
IsUpper(c) == IndexOf(c, UpperLetters) # 0
IsLetter(c) == IsLower(c) \/ IsUpper(c)
IsDigit(c) == IndexOf(c, DigitChars) # 0
ToUpper(c) == IF IsLower(c) THEN UpperLetters[IndexOf(c, LowerLetters)] ELSE c
ToLower(c) == IF IsUpper(c) THEN LowerLetters[IndexOf(c, UpperLetters)] ELSE c

\* str.title(): a cased character is capitalised when the character before
\* it is not cased and lowercased when it is; other characters are kept.
RECURSIVE TitleFrom(_, _, _)
TitleFrom(cs, k, previousIsCased) ==
    IF k > Len(cs) THEN <<>>
    ELSE LET c == cs[k] IN
         IF IsLower(c)
         THEN <<IF previousIsCased THEN c ELSE ToUpper(c)>> \o TitleFrom(cs, k + 1, TRUE)
         ELSE IF IsUpper(c)
         THEN <<IF previousIsCased THEN ToLower(c) ELSE c>> \o TitleFrom(cs, k + 1, TRUE)
         ELSE <<c>> \o TitleFrom(cs, k + 1, FALSE)

StrTitle(cs) == TitleFrom(cs, 1, FALSE)

\* str.split(sep) for a one-character separator: the pieces between every
\* occurrence of sep, in order.
RECURSIVE StrSplit(_, _)
StrSplit(cs, sep) ==
    LET k == IndexOf(sep, cs) IN
    IF k = 0 THEN <<cs>>
    ELSE <<SubSeq(cs, 1, k - 1)>> \o StrSplit(SubSeq(cs, k + 1, Len(cs)), sep)

(* --------------------------- process_user_data ------------------------ *)

UserNames == {<<"j", "o", "h", "n", " ", "d", "o", "e">>,
              <<"o", "'", "n", "e", "i", "l">>,
              <<"J", "A", "N", "E">>,
              <<"j">>}

UserEmails == {<<"j", "@", "x", ".", "c", "o", "m">>,
               <<"a", "@", "b", "@", "c">>,
               <<"n", "o", "b", "o", "d", "y">>}

UserAges == {17, 18, 25}

UserKeys == {"name", "email", "age"}

\* The mappings handed to process_user_data: any subset of the three keys.
UserDicts ==
    {PyDict([k \in ks |-> IF k = "name" THEN n ELSE IF k = "email" THEN e ELSE a]) :
        ks \in SUBSET UserKeys, n \in UserNames, e \in UserEmails, a \in UserAges}

\* Values that are not mappings.
NonMappings == {PyNone, PyInt(25), PyStr(<<"n", "a", "m", "e">>)}

\* Variant: the fields are checked in another order.
required_fields_reordered == <<"age", "email", "name">>

\* required_fields = ['name', 'email', 'age']
required_fields == <<"name", "email", "age">>

NoField == ""

\* for field in required_fields: if field not in user_data
RECURSIVE FirstMissingFrom(_, _, _)
FirstMissingFrom(fields, k, items) ==
    IF k > Len(fields) THEN NoField
    ELSE IF fields[k] \notin DOMAIN items THEN fields[k]
    ELSE FirstMissingFrom(fields, k + 1, items)

\* Variant: an empty mapping is rejected as well (if not user_data).
IsNonEmptyDict(v) == v.type = "dict" /\ DOMAIN v.items # {}

\* isinstance(user_data, dict)
IsDict(v) == v.type = "dict"

AdultAge == 18

\* Variant: strictly older than 18.
IsAdultStrict(age) == age > AdultAge

\* Variant: the comparison also consults state shared with the Calculators.
IsAdultWhileNothingLogged(age) == age >= AdultAge /\ Cells = 0

\* user_data['age'] >= 18
IsAdult(age) == age >= AdultAge

\* Variant: the last piece is taken (index -1), which always exists.
ListLastItem(pieces) == Return(pieces[Len(pieces)])

\* pieces[1]: the second item of the list, IndexError when it has only one.
ListSecondItem(pieces) ==
    IF Len(pieces) < 2
    THEN Raise("IndexError", "list index out of range")
    ELSE Return(pieces[2])

\* The dictionary of the return statement; the error of the domain
\* extraction when there is no second piece.
FormattedUser(items) ==
    LET formatted_name == StrTitle(items["name"])
        email_domain == ListSecondItem(StrSplit(items["email"], "@"))
    IN
    IF email_domain.kind = "raise"
    THEN email_domain
    ELSE Return(PyDict([formatted_name |-> formatted_name,
                        email_domain |-> email_domain.value,
                        age_group |-> IF IsAdult(items["age"])
                                      THEN "adult" ELSE "minor"]))

\* Variant: the domain is extracted from the email, when there is one,
\* before the required fields are looked for.
process_user_data_extracting_first(user_data) ==
    IF ~IsDict(user_data)
    THEN Raise("TypeError", "user_data must be a dictionary")
    ELSE LET items == user_data.items
             missing == FirstMissingFrom(required_fields, 1, items)
             email_domain == IF "email" \in DOMAIN items
                             THEN ListSecondItem(StrSplit(items["email"], "@"))
                             ELSE Pending
         IN
         IF email_domain.kind = "raise"
         THEN email_domain
         ELSE IF missing # NoField
         THEN Raise("KeyError", "Missing required field: " \o missing)
         ELSE FormattedUser(items)

process_user_data(user_data) ==
    IF ~IsDict(user_data)
    THEN Raise("TypeError", "user_data must be a dictionary")
    ELSE LET items == user_data.items
             missing == FirstMissingFrom(required_fields, 1, items)
         IN
         IF missing # NoField
         THEN Raise("KeyError", "Missing required field: " \o missing)
         ELSE FormattedUser(items)

InitUser ==
    /\ NoCalculator
    /\ \E u \in UserDicts \cup NonMappings : call = FunctionCall("process_user_data", <<u>>)
    /\ outcome = Pending
    /\ frames = <<>>
    /\ seen = {}

ProcessUserData ==
    /\ call.op = "process_user_data"
    /\ outcome.kind = "pending"
    /\ outcome' = process_user_data(call.args[1])
    /\ UNCHANGED <<heap, calc, held, completed, call, frames, seen>>

NextUser == ProcessUserData

SpecUser == InitUser /\ [][NextUser]_vars

(* -------------------- properties: process_user_data ------------------- *)

UserDone == call.op = "process_user_data" /\ outcome.kind # "pending"

UserInput == call.args[1]

UserSucceeded == UserDone /\ outcome.kind = "return"

\* C14: a mapping missing required keys fails with KeyError("Missing
\* required field: {field}") where field is the first absent key in the
\* order name, email, age, and only that key is reported.
C14_FirstMissingField ==
    (UserDone /\ UserInput.type = "dict" /\ ~(UserKeys \subseteq DOMAIN UserInput.items)) =>
        LET present == DOMAIN UserInput.items
            first == IF "name" \notin present THEN "name"
                     ELSE IF "email" \notin present THEN "email"
                     ELSE "age"
        IN  /\ outcome = Raise("KeyError", "Missing required field: " \o first)
            /\ present = {"name", "email"} =>
                 outcome.msg = "Missing required field: age"

C14_Witness ==
    /\ UserDone
    /\ UserInput.type = "dict"
    /\ DOMAIN UserInput.items = {"name"}
    /\ outcome = Raise("KeyError", "Missing required field: email")

\* C15: process_user_data raises TypeError("user_data must be a
\* dictionary") whenever user_data is not a mapping and never for a mapping.
C15_TypeErrorIffNotMapping ==
    UserDone =>
        (UserInput.type # "dict"
           <=> (outcome.kind = "raise" /\ outcome.exc = "TypeError"
                  /\ outcome.msg = "user_data must be a dictionary"))

C15_Witness ==
    /\ UserDone
    /\ UserInput = PyNone
    /\ outcome = Raise("TypeError", "user_data must be a dictionary")

\* The text strictly after the first occurrence of c in cs.
AfterFirst(cs, c) == SubSeq(cs, IndexOf(c, cs) + 1, Len(cs))

\* C16: on success email_domain is the text strictly after the first '@'
\* of email, for every email containing at least one '@', also when it
\* contains more than one.
C16_DomainAfterFirstAt ==
    UserSucceeded =>
        outcome.value.items["email_domain"] = AfterFirst(UserInput.items["email"], "@")

Whitespace == {" ", "\t", "\n"}

\* Title case over whitespace-separated words: the first letter of each
\* word capitalised, every other letter lowercased.
WhitespaceTitle(cs) ==
    [k \in 1 .. Len(cs) |->
        IF k = 1 \/ cs[k - 1] \in Whitespace THEN ToUpper(cs[k]) ELSE ToLower(cs[k])]

\* C17: on success formatted_name is name title-cased over its
\* whitespace-separated words (first letter of each word capitalised, the
\* other letters lowercased; "john doe" becomes "John Doe").
C17_TitleOverWhitespaceWords ==
    UserSucceeded =>
        outcome.value.items["formatted_name"] = WhitespaceTitle(UserInput.items["name"])

\* C18: on success age_group is "adult" exactly when age >= 18 and "minor"
\* otherwise; 18 is adult and 17 is minor.
C18_AgeGroup ==
    UserSucceeded =>
        LET age == UserInput.items["age"]
            group == outcome.value.items["age_group"]
        IN  /\ group = "adult" <=> age >= 18
            /\ group = "minor" <=> age < 18
            /\ age = 18 => group = "adult"
            /\ age = 17 => group = "minor"

C18_Witness ==
    /\ UserSucceeded
    /\ UserInput.items["age"] = 18
    /\ outcome.value.items["age_group"] = "adult"

\* C21: when user_data has all three required keys but its email contains
\* no '@', process_user_data fails with a runtime error (the IndexError of
\* the domain extraction) instead of returning a result.
C21_NoAtFailsAtRuntime ==
    (/\ UserDone
     /\ UserInput.type = "dict"
     /\ UserKeys \subseteq DOMAIN UserInput.items
     /\ IndexOf("@", UserInput.items["email"]) = 0) =>
        /\ outcome.kind = "raise"
        /\ outcome.exc = "IndexError"

C21_Witness ==
    /\ UserDone
    /\ UserInput.type = "dict"
    /\ UserKeys \subseteq DOMAIN UserInput.items
    /\ UserInput.items["email"] = <<"n", "o", "b", "o", "d", "y">>
    /\ outcome = Raise("IndexError", "list index out of range")

\* C29: process_user_data checks in a fixed order: the mapping type first,
\* then the required keys, and only then computes the output fields; a
\* mapping that lacks a required key and whose email has no '@' fails with
\* the missing-field KeyError, never with the error of the domain extraction.
C29_CheckOrder ==
    UserDone =>
        /\ UserInput.type # "dict" =>
             (outcome.kind = "raise" /\ outcome.exc = "TypeError")
        /\ (UserInput.type = "dict" /\ ~(UserKeys \subseteq DOMAIN UserInput.items)) =>
             (outcome.kind = "raise" /\ outcome.exc = "KeyError")
        /\ (outcome.kind = "raise" /\ outcome.exc = "IndexError") =>
             (UserInput.type = "dict" /\ UserKeys \subseteq DOMAIN UserInput.items)

C29_Witness ==
    /\ UserDone
    /\ UserInput.type = "dict"
    /\ DOMAIN UserInput.items = {"name", "email"}
    /\ UserInput.items["email"] = <<"n", "o", "b", "o", "d", "y">>
    /\ outcome = Raise("KeyError", "Missing required field: age")

(* ------------- process_user_data among Calculator calls --------------- *)

\* Two valid records: the one of the sample_user_data fixture, and a minor.
SessionRecords ==
    {PyDict([name |-> <<"j", "o", "h", "n", " ", "d", "o", "e">>,
             email |-> <<"j", "o", "h", "n", ".", "d", "o", "e", "@",
                         "e", "x", "a", "m", "p", "l", "e", ".", "c", "o", "m">>,
             age |-> 25]),
     PyDict([name |-> <<"J", "A", "N", "E">>,
             email |-> <<"j", "@", "x", ".", "c", "o", "m">>,
             age |-> 17])}

\* The auxiliary record of the first call made with input u.
FirstSeen(u) == {e \in seen : e.input = u}

\* process_user_data(u), called and returned in one step; the first call
\* with each record is remembered together with the number of logged
\* entries at that moment.
ProcessUserDataCall(u) ==
    /\ call' = FunctionCall("process_user_data", <<u>>)
    /\ outcome' = process_user_data(u)
    /\ seen' = IF FirstSeen(u) # {} THEN seen
               ELSE seen \cup {[input |-> u, result |-> process_user_data(u), cells |-> Cells]}
    /\ UNCHANGED <<heap, calc, held, completed, frames>>

NextSession ==
    \/ \E i \in Inst : Construct(i)
    \/ \E i \in Inst, p \in OperandPairs : Add(i, p[1], p[2])
    \/ \E i \in Inst : ClearHistory(i)
    \/ \E u \in SessionRecords : ProcessUserDataCall(u)

SpecSession == Init /\ [][NextSession]_vars

PyCalculator(i) == [type |-> "Calculator", inst |-> i]

\* The generator of the fixture, suspended at its yield while the test
\* that asked for it runs; calc is the instance it created.
FixtureFrame(i) == [fn |-> "calculator", pc |-> "yield", calc |-> i]

TestRunning == frames # <<>> /\ Top.fn = "calculator" /\ Top.pc = "yield"

\* Set-up, up to the yield: calc = Calculator(); yield calc.
FixtureSetup(i) ==
    /\ frames = <<>>
    /\ ~Constructed(i)
    /\ LET r == NewHistoryRef(i) IN
        /\ calc' = [calc EXCEPT ![i] = r]
        /\ heap' = [heap EXCEPT ![r] = NewHistory]
    /\ completed' = [completed EXCEPT ![i] = 0]
    /\ frames' = <<FixtureFrame(i)>>
    /\ call' = FunctionCall("calculator", <<>>)
    /\ outcome' = Return(PyCalculator(i))
    /\ UNCHANGED <<held, seen>>

\* Variant: the generator ends after the yield without cleaning up.
FixtureTeardownWithoutClear ==
    /\ TestRunning
    /\ frames' = <<>>
    /\ call' = MethodCall("clear_history", Top.calc, <<>>)
    /\ outcome' = Return(PyNone)
    /\ UNCHANGED <<heap, calc, held, completed, seen>>

\* Tear-down, resumed once the test body has finished: calc.clear_history(),
\* then the generator ends.
FixtureTeardown ==
    /\ TestRunning
    /\ heap' = [heap EXCEPT ![calc[Top.calc]] = ListClear(@)]
    /\ completed' = [completed EXCEPT ![Top.calc] = 0]
    /\ frames' = <<>>
    /\ call' = MethodCall("clear_history", Top.calc, <<>>)
    /\ outcome' = Return(PyNone)
    /\ UNCHANGED <<calc, held, seen>>

\* A step of the body of the running test, on the instance it was handed.
TestBody ==
    /\ TestRunning
    /\ \/ \E p \in OperandPairs : Add(Top.calc, p[1], p[2])
       \/ \E p \in OperandPairs : Multiply(Top.calc, p[1], p[2])
       \/ GetHistory(Top.calc)
       \/ ClearHistory(Top.calc)

NextFixture ==
    \/ \E i \in Inst : FixtureSetup(i)
    \/ TestBody
    \/ FixtureTeardown

SpecFixture == Init /\ [][NextFixture]_vars

\* C24: the calculator fixture hands each test a new Calculator whose
\* history is a new, empty list, whatever earlier tests did with their own
\* instances; the instance's history is cleared at teardown, which happens
\* only once the test body has finished, so between tests every history is
\* empty and no instance is used again.
C24_FixtureFreshAndCleared ==
    [][/\ (frames = <<>> /\ frames' # <<>>) =>
            LET i == frames'[1].calc IN
            /\ ~Constructed(i)
            /\ outcome' = Return(PyCalculator(i))
            /\ HistoryAfter(i) = <<>>
            /\ \A j \in Inst \ {i} : calc'[j] # calc'[i]
       /\ (frames # <<>> /\ frames' = <<>>) =>
            /\ call' = MethodCall("clear_history", Top.calc, <<>>)
            /\ \A j \in Inst : Constructed(j) => HistoryAfter(j) = <<>>
       /\ (frames # <<>> /\ frames' # <<>>) =>
            /\ frames' = frames
            /\ call'.inst = Top.calc
            /\ \A j \in Inst \ {Top.calc} : calc'[j] = calc[j] /\ (Constructed(j) => HistoryAfter(j) = <<>>)
      ]_vars

\* The second test has just been handed its instance; the first test logged
\* entries (a copy it took survives) and its instance was cleared.
C24_Witness ==
    /\ TestRunning
    /\ call.op = "calculator"
    /\ \E j \in Inst \ {Top.calc} : Constructed(j) /\ History(j) = <<>>
    /\ held # NoRef /\ heap[held] # <<>>
    /\ History(Top.calc) = <<>>

(* ----------------------------- get_user_by_api ------------------------ *)

\* A str whose text is kept whole (it is only built and compared).
PyText(s) == [type |-> "str", text |-> s]

ApiParams == {"page", "per_page"}

\* The arguments of a call: values for any subset of the two parameters.
ApiArgs ==
    UNION {[given -> 0 .. MaxApiArg] : given \in SUBSET ApiParams}

\* def get_user_by_api(page=1, per_page=6)
DefaultPage == 1

DefaultPerPage == 6

\* The value a parameter is bound to: the argument, or the default.
Bound(args, param, default) == IF param \in DOMAIN args THEN args[param] ELSE default

\* Variant: the two values are formatted into each other's place.
ApiUrlSwapped(page, per_page) ==
    "https://reqres.in/api/users?page=" \o IntStr(per_page) \o "&per_page=" \o IntStr(page)

\* f"https://reqres.in/api/users?page={page}&per_page={per_page}"
ApiUrl(page, per_page) ==
    "https://reqres.in/api/users?page=" \o IntStr(page) \o "&per_page=" \o IntStr(per_page)

get_user_by_api(args) ==
    Return(PyText(ApiUrl(Bound(args, "page", DefaultPage),
                         Bound(args, "per_page", DefaultPerPage))))

InitApi ==
    /\ NoCalculator
    /\ \E args \in ApiArgs : call = FunctionCall("get_user_by_api", args)
    /\ outcome = Pending
    /\ frames = <<>>
    /\ seen = {}

GetUserByApi ==
    /\ call.op = "get_user_by_api"
    /\ outcome.kind = "pending"
    /\ outcome' = get_user_by_api(call.args)
    /\ UNCHANGED <<heap, calc, held, completed, call, frames, seen>>

NextApi == GetUserByApi

SpecApi == InitApi /\ [][NextApi]_vars

(* --------------------- properties: get_user_by_api -------------------- *)

ApiDone == call.op = "get_user_by_api" /\ outcome.kind # "pending"

\* C23: get_user_by_api(page, per_page) returns exactly
\* "https://reqres.in/api/users?page={page}&per_page={per_page}", with
\* page = 1 and per_page = 6 for whichever argument is omitted.
C23_ApiUrl ==
    ApiDone =>
        LET given == DOMAIN call.args
            page == IF "page" \in given THEN IntStr(call.args["page"]) ELSE "1"
            per_page == IF "per_page" \in given THEN IntStr(call.args["per_page"]) ELSE "6"
        IN  /\ outcome.kind = "return"
            /\ outcome.value.type = "str"
            /\ outcome.value.text =
                 "https://reqres.in/api/users?page=" \o page \o "&per_page=" \o per_page
            /\ given = {} =>
                 outcome.value.text = "https://reqres.in/api/users?page=1&per_page=6"
            /\ (given = ApiParams /\ call.args["page"] = 2 /\ call.args["per_page"] = 10) =>
                 outcome.value.text = "https://reqres.in/api/users?page=2&per_page=10"

C23_Witness ==
    /\ ApiDone
    /\ DOMAIN call.args = {"page"}
    /\ call.args["page"] = 3
    /\ outcome = Return(PyText("https://reqres.in/api/users?page=3&per_page=6"))

(* ----------------------------- validate_email ------------------------- *)

EmailAlphabet == {"a", "@", ".", "\n"}

\* Addresses from the repository's tests and the specification's examples,
\* and strings that probe each character class of the pattern.
EmailExamples == {<<"t", "e", "s", "t", "@", "e", "x", "a", "m", "p", "l", "e", ".", "c", "o", "m">>,
                  <<"i", "n", "v", "a", "l", "i", "d", "-", "e", "m", "a", "i", "l">>,
                  <<"a", "@", "b", ".", "c">>,
                  <<"a", "_", "1", "@", "b", ".", "c", "d">>,
                  <<"a", "@", "b", "_", "c", ".", "d", "e">>,
                  <<"a", "@", "b", ".", "c", "1">>,
                  <<"a", "%", "+", "-", "@", "b", "-", "c", ".", "d", "e">>,
                  <<"A", "@", "B", ".", "C", "D">>}

EmailInputs ==
    UNION {[1 .. n -> EmailAlphabet] : n \in 0 .. MaxEmailLen} \cup EmailExamples

\* [a-zA-Z0-9._%+-]
LocalChar(c) == IsLetter(c) \/ IsDigit(c) \/ c \in {".", "_", "%", "+", "-"}

\* [a-zA-Z0-9.-]
DomainChar(c) == IsLetter(c) \/ IsDigit(c) \/ c \in {".", "-"}

\* [a-zA-Z]
TldChar(c) == IsLetter(c)

\* Variant: {1,} instead of {2,}.
TldCountOkFromOne(n) == n >= 1

\* {2,}
TldCountOk(n) == n >= 2

\* The positions e at which $ matches with the match ending after e
\* characters: the end of the string, and just before a newline that is
\* the last character of the string.
DollarEnds(cs) ==
    {Len(cs)} \cup (IF Len(cs) > 0 /\ cs[Len(cs)] = "\n" THEN {Len(cs) - 1} ELSE {})

\* re.match(pattern, email) finds a match: the string splits, from its
\* first character, into the local part, '@', the domain part, '.', and
\* the letters up to a position where $ matches.
PatternMatches(cs) ==
    \E e \in DollarEnds(cs) :
    \E at \in 2 .. e :
    \E dot \in (at + 2) .. e :
        /\ \A k \in 1 .. (at - 1) : LocalChar(cs[k])
        /\ cs[at] = "@"
        /\ \A k \in (at + 1) .. (dot - 1) : DomainChar(cs[k])
        /\ cs[dot] = "."
        /\ \A k \in (dot + 1) .. e : TldChar(cs[k])
        /\ TldCountOk(e - dot)

\* return bool(re.match(pattern, email))
validate_email(email) == Return(PyBool(PatternMatches(email.val)))

InitEmail ==
    /\ NoCalculator
    /\ \E cs \in EmailInputs : call = FunctionCall("validate_email", <<PyStr(cs)>>)
    /\ outcome = Pending
    /\ frames = <<>>
    /\ seen = {}

ValidateEmail ==
    /\ call.op = "validate_email"
    /\ outcome.kind = "pending"
    /\ outcome' = validate_email(call.args[1])
    /\ UNCHANGED <<heap, calc, held, completed, call, frames, seen>>

NextEmail == ValidateEmail

SpecEmail == InitEmail /\ [][NextEmail]_vars

(* ---------------------- properties: validate_email -------------------- *)

EmailDone == call.op = "validate_email" /\ outcome.kind # "pending"

EmailInput == call.args[1].val

\* The whole of cs, first to last character, is local part, '@', domain
\* part, '.', and two or more letters.
EntireStringMatches(cs) ==
    \E at, dot \in 1 .. Len(cs) :
        LET local == SubSeq(cs, 1, at - 1)
            domain == SubSeq(cs, at + 1, dot - 1)
            tld == SubSeq(cs, dot + 1, Len(cs))
        IN  /\ at < dot
            /\ cs[at] = "@"
            /\ cs[dot] = "."
            /\ Len(local) >= 1
            /\ \A k \in 1 .. Len(local) :
                 IsLetter(local[k]) \/ IsDigit(local[k]) \/ local[k] \in {".", "_", "%", "+", "-"}
            /\ Len(domain) >= 1
            /\ \A k \in 1 .. Len(domain) :
                 IsLetter(domain[k]) \/ IsDigit(domain[k]) \/ domain[k] \in {".", "-"}
            /\ Len(tld) >= 2
            /\ \A k \in 1 .. Len(tld) : IsLetter(tld[k])

\* C19: validate_email(email) is true if and only if the entire string
\* matches the pattern; a matching address followed by one more character,
\* such as a newline, is rejected.
C19_EntireStringMustMatch ==
    EmailDone => (outcome = Return(PyBool(TRUE)) <=> EntireStringMatches(EmailInput))

\* The part of cs after its final '.' is a single letter.
SingleLetterAfterFinalDot(cs) ==
    /\ Len(cs) >= 2
    /\ cs[Len(cs) - 1] = "."
    /\ IsLetter(cs[Len(cs)])

HasNoAt(cs) == \A k \in 1 .. Len(cs) : cs[k] # "@"

\* C20: validate_email rejects every string whose part after the final '.'
\* is a single letter (such as "a@b.c") and every string containing no '@'
\* (such as "invalid-email").
C20_RejectsShortTldAndNoAt ==
    (EmailDone /\ (SingleLetterAfterFinalDot(EmailInput) \/ HasNoAt(EmailInput))) =>
        outcome = Return(PyBool(FALSE))

C20_Witness ==
    /\ EmailDone
    /\ EmailInput = <<"a", "@", "b", ".", "c">>
    /\ outcome = Return(PyBool(FALSE))

====
